---- MODULE Spec2Model ----
(***************************************************************************)
(* The streaming read loop of getAiInsights (gdc-bank-FE, App.tsx).         *)
(*                                                                         *)
(* Text is a sequence of one-character strings.  Bytes are the same        *)
(* one-character strings for ASCII, plus the two bytes "0xC3" "0xA9" of    *)
(* the UTF-8 encoding of U+00E9.  The decoder's replacement character is   *)
(* the token "U+FFFD".                                                     *)
(***************************************************************************)
EXTENDS Naturals, Sequences, FiniteSets

\* ------------------------------------------------------------------ text

SubStr(s, i, j) == IF j < i THEN << >> ELSE SubSeq(s, i, j)

\* s.startsWith(p, i - 1): p occurs in s at (1-based) index i.
StartsAt(s, p, i) ==
    /\ i >= 1
    /\ i + Len(p) - 1 <= Len(s)
    /\ \A k \in 1..Len(p) : s[i + k - 1] = p[k]

\* String.prototype.includes
Includes(s, p) == \E i \in 1..(Len(s) + 1) : StartsAt(s, p, i)

\* ------------------------------------------------------- TextDecoder.decode

LeadBytes == {"0xC3"}
ContBytes == {"0xA9"}
Replacement == "U+FFFD"

\* The code point of a complete two-byte sequence.
CodePoint(lead, cont) == "U+00E9"

\* the mark of a continuation byte that the lead byte before it has consumed
Consumed == "consumed"

\* What the WHATWG UTF-8 decoder, run over the whole input and then flushed,
\* emits at byte i: the code point for a lead byte with its continuation byte,
\* nothing more for that continuation byte, U+FFFD for a lead byte with no
\* continuation byte after it (another byte, or the end of the input) and for
\* a stray continuation byte, and an ASCII byte as it is.
Utf8At(bytes, i) ==
    IF bytes[i] \in LeadBytes
    THEN IF i < Len(bytes) /\ bytes[i + 1] \in ContBytes
         THEN CodePoint(bytes[i], bytes[i + 1])
         ELSE Replacement
    ELSE IF bytes[i] \in ContBytes
         THEN IF i > 1 /\ bytes[i - 1] \in LeadBytes THEN Consumed ELSE Replacement
    ELSE bytes[i]

IsEmitted(c) == c # Consumed

\* decoder.decode(value): no {stream: true}, so every call decodes its chunk
\* alone and flushes; nothing is carried to the next call.
Decode(value) == SelectSeq([i \in 1..Len(value) |-> Utf8At(value, i)], IsEmitted)

\* ------------------------------------------------ /data:\s*({.+?})\n?/g

DataPrefix == <<"d", "a", "t", "a", ":">>
\* \s restricted to the characters of the model
WhiteSpace == {" ", "\n", "\t", "\r"}
\* what . does not match
LineTerminators == {"\n", "\r"}
NoMatch == [found |-> FALSE]

\* the least number of a non-empty set of numbers (the set is bound to T, so
\* that it is computed once)
Least(S) == CHOOSE x \in UNION {{a \in T : \A y \in T : a <= y} : T \in {S}} : TRUE

\* \s* from index j: the index after the white space.  \s* is greedy; what
\* follows it is "{", which is no white space, so giving back white space
\* never helps.
SkipWhiteSpace(s, j) ==
    Least({k \in j..(Len(s) + 1) : k > Len(s) \/ s[k] \notin WhiteSpace})

\* .+? followed by }: the first "}" at index k or later, with no line
\* terminator before it; 0 when there is none.
LazyClose(s, k) ==
    LET stops == {x \in k..Len(s) : s[x] \in (LineTerminators \cup {"}"})}
    IN  IF stops = {} THEN 0
        ELSE IF s[Least(stops)] = "}" THEN Least(stops) ELSE 0

\* The attempt to match the regex with "data:" at index i.
MatchAt(s, i) ==
    IF ~StartsAt(s, DataPrefix, i) THEN NoMatch
    ELSE LET open == SkipWhiteSpace(s, i + Len(DataPrefix))
         IN  IF ~(open <= Len(s) /\ s[open] = "{") THEN NoMatch
             ELSE IF ~(open + 1 <= Len(s) /\ s[open + 1] \notin LineTerminators)
                  THEN NoMatch
             ELSE LET close == LazyClose(s, open + 2)
                  IN  IF close = 0 THEN NoMatch
                      ELSE [found     |-> TRUE,
                            index     |-> i,
                            group1    |-> SubStr(s, open, close),
                            lastIndex |-> IF close < Len(s) /\ s[close + 1] = "\n"
                                          THEN close + 1 ELSE close]

\* regex.exec(chunk) with regex.lastIndex = from - 1: the leftmost match at
\* index from or later.
RegexExec(s, from) ==
    LET starts == {i \in from..Len(s) : MatchAt(s, i).found}
    IN  IF starts = {} THEN NoMatch ELSE MatchAt(s, Least(starts))

\* ------------------------------------------------------------ JSON.parse

\* JavaScript values
Undefined == [t |-> "undefined"]
JNull == [t |-> "null"]
JBool(b) == [t |-> "boolean", b |-> b]
JNum(lex) == [t |-> "number", lex |-> lex]
JStr(s) == [t |-> "string", s |-> s]
JArr(a) == [t |-> "array", a |-> a]
JObj(m) == [t |-> "object", m |-> m]

JsonWhiteSpace == {" ", "\t", "\n", "\r"}
Digits == {"0", "1", "2", "3", "4", "5", "6", "7", "8", "9"}
HexDigits == Digits \cup {"a", "b", "c", "d", "e", "f", "A", "B", "C", "D", "E", "F"}
\* control characters of the model, which a JSON string may not hold unescaped
ControlChars == {"\n", "\t", "\r", "U+0008", "U+000C"}
ParseError == [ok |-> FALSE]
Parsed(v, next) == [ok |-> TRUE, v |-> v, next |-> next]

\* the index after the white space (the digits) that starts at index i
SkipJsonWs(s, i) ==
    Least({k \in i..(Len(s) + 1) : k > Len(s) \/ s[k] \notin JsonWhiteSpace})

SkipDigits(s, i) ==
    Least({k \in i..(Len(s) + 1) : k > Len(s) \/ s[k] \notin Digits})

\* The character a simple escape \c stands for.
SimpleEscape(c) ==
    CASE c = "\"" -> "\""
      [] c = "\\" -> "\\"
      [] c = "/"  -> "/"
      [] c = "b"  -> "U+0008"
      [] c = "f"  -> "U+000C"
      [] c = "n"  -> "\n"
      [] c = "r"  -> "\r"
      [] c = "t"  -> "\t"

\* The character of \uXXXX; of the code points only U+00E9 has a name in the
\* model, the others share one token.
UnicodeEscape(h) ==
    IF h \in {<<"0", "0", "e", "9">>, <<"0", "0", "E", "9">>} THEN "U+00E9" ELSE "U+XXXX"

\* The index after the plain characters (no quote, no backslash, no control
\* character) that start at index i.
SkipPlain(s, i) ==
    Least({k \in i..(Len(s) + 1) :
              k > Len(s) \/ s[k] \in (ControlChars \cup {"\"", "\\"})})

RECURSIVE ParseStringBody(_, _, _)
\* The characters of a JSON string from index i (after the opening quote) to
\* its closing quote; acc holds the characters read so far.
ParseStringBody(s, i0, acc0) ==
    LET i   == SkipPlain(s, i0)
        acc == acc0 \o SubStr(s, i0, i - 1)
    IN  IF i > Len(s) THEN ParseError
        ELSE IF s[i] = "\"" THEN Parsed(JStr(acc), i + 1)
        ELSE IF s[i] \in ControlChars THEN ParseError
        ELSE IF i + 1 > Len(s) THEN ParseError
        ELSE IF s[i + 1] \in {"\"", "\\", "/", "b", "f", "n", "r", "t"}
             THEN ParseStringBody(s, i + 2, Append(acc, SimpleEscape(s[i + 1])))
        ELSE IF /\ s[i + 1] = "u"
                /\ i + 5 <= Len(s)
                /\ \A k \in (i + 2)..(i + 5) : s[k] \in HexDigits
             THEN ParseStringBody(s, i + 6,
                                  Append(acc, UnicodeEscape(SubStr(s, i + 2, i + 5))))
        ELSE ParseError

\* -?(0|[1-9][0-9]*)(\.[0-9]+)?([eE][+-]?[0-9]+)? at index i
ParseNumber(s, i) ==
    LET int0 == IF i <= Len(s) /\ s[i] = "-" THEN i + 1 ELSE i
        int1 == IF int0 <= Len(s) /\ s[int0] = "0" THEN int0 + 1 ELSE SkipDigits(s, int0)
        frac1 == IF int1 <= Len(s) /\ s[int1] = "." THEN SkipDigits(s, int1 + 1) ELSE int1
        fracOk == frac1 = int1 \/ frac1 > int1 + 1
        exp0 == IF frac1 <= Len(s) /\ s[frac1] \in {"e", "E"}
                THEN IF frac1 + 1 <= Len(s) /\ s[frac1 + 1] \in {"+", "-"}
                     THEN frac1 + 2 ELSE frac1 + 1
                ELSE frac1
        exp1 == IF exp0 > frac1 THEN SkipDigits(s, exp0) ELSE frac1
        expOk == exp0 = frac1 \/ exp1 > exp0
    IN  IF int1 > int0 /\ fracOk /\ expOk
        THEN Parsed(JNum(SubStr(s, i, exp1 - 1)), exp1)
        ELSE ParseError

LiteralTrue == <<"t", "r", "u", "e">>
LiteralFalse == <<"f", "a", "l", "s", "e">>
LiteralNull == <<"n", "u", "l", "l">>

RECURSIVE ParseValue(_, _)
RECURSIVE ParseMembers(_, _, _)
RECURSIVE ParseElements(_, _, _)

\* A JSON value at index i, white space before it skipped.
ParseValue(s, i0) ==
    LET i == SkipJsonWs(s, i0)
    IN  IF i > Len(s) THEN ParseError
        ELSE IF s[i] = "{"
             THEN LET j == SkipJsonWs(s, i + 1)
                  IN  IF j <= Len(s) /\ s[j] = "}" THEN Parsed(JObj(<< >>), j + 1)
                      ELSE ParseMembers(s, j, << >>)
        ELSE IF s[i] = "["
             THEN LET j == SkipJsonWs(s, i + 1)
                  IN  IF j <= Len(s) /\ s[j] = "]" THEN Parsed(JArr(<< >>), j + 1)
                      ELSE ParseElements(s, j, << >>)
        ELSE IF s[i] = "\"" THEN ParseStringBody(s, i + 1, << >>)
        ELSE IF StartsAt(s, LiteralTrue, i) THEN Parsed(JBool(TRUE), i + 4)
        ELSE IF StartsAt(s, LiteralFalse, i) THEN Parsed(JBool(FALSE), i + 5)
        ELSE IF StartsAt(s, LiteralNull, i) THEN Parsed(JNull, i + 4)
        ELSE ParseNumber(s, i)

\* The members of an object from the key at index i to the closing brace.
ParseMembers(s, i, acc) ==
    IF ~(i <= Len(s) /\ s[i] = "\"") THEN ParseError
    ELSE LET key == ParseStringBody(s, i + 1, << >>)
         IN  IF ~key.ok THEN ParseError
             ELSE LET colon == SkipJsonWs(s, key.next)
                  IN  IF ~(colon <= Len(s) /\ s[colon] = ":") THEN ParseError
                      ELSE LET val == ParseValue(s, colon + 1)
                           IN  IF ~val.ok THEN ParseError
                               ELSE LET sep == SkipJsonWs(s, val.next)
                                        m   == Append(acc, [k |-> key.v.s, v |-> val.v])
                                    IN  IF sep > Len(s) THEN ParseError
                                        ELSE IF s[sep] = "}" THEN Parsed(JObj(m), sep + 1)
                                        ELSE IF s[sep] = ","
                                             THEN ParseMembers(s, SkipJsonWs(s, sep + 1), m)
                                        ELSE ParseError

\* The elements of an array from the value at index i to the closing bracket.
ParseElements(s, i, acc) ==
    LET val == ParseValue(s, i)
    IN  IF ~val.ok THEN ParseError
        ELSE LET sep == SkipJsonWs(s, val.next)
                 a   == Append(acc, val.v)
             IN  IF sep > Len(s) THEN ParseError
                 ELSE IF s[sep] = "]" THEN Parsed(JArr(a), sep + 1)
                 ELSE IF s[sep] = "," THEN ParseElements(s, sep + 1, a)
                 ELSE ParseError

\* JSON.parse(text): one value and nothing but white space after it; a
\* SyntaxError is [ok |-> FALSE].
JsonParse(text) ==
    LET r == ParseValue(text, 1)
    IN  IF r.ok /\ SkipJsonWs(text, r.next) > Len(text) THEN r ELSE ParseError

\* ------------------------------------------------- the body of the exec loop

DoneMarker == <<"[", "D", "O", "N", "E", "]">>
KeyChoices == <<"c", "h", "o", "i", "c", "e", "s">>
KeyDelta == <<"d", "e", "l", "t", "a">>
KeyContent == <<"c", "o", "n", "t", "e", "n", "t">>
Index0 == <<"0">>
ObjectObject == <<"[", "o", "b", "j", "e", "c", "t", " ", "O", "b", "j", "e", "c", "t", "]">>

RECURSIVE LastMember(_, _, _)
\* The value of the last member of an object with the key, from member i down
\* (a key that occurs twice keeps its last value).
LastMember(m, key, i) ==
    IF i = 0 THEN Undefined
    ELSE IF m[i].k = key THEN m[i].v
    ELSE LastMember(m, key, i - 1)

\* v[key] for a value that is neither null nor undefined; key is one of
\* choices, 0, delta, content.
Property(v, key) ==
    CASE v.t = "object" -> LastMember(v.m, key, Len(v.m))
      [] v.t = "array"  -> IF key = Index0 /\ Len(v.a) > 0 THEN v.a[1] ELSE Undefined
      [] v.t = "string" -> IF key = Index0 /\ Len(v.s) > 0 THEN JStr(<<v.s[1]>>)
                           ELSE Undefined
      [] OTHER          -> Undefined

\* v?.[key]
OptionalChain(v, key) ==
    IF v.t \in {"undefined", "null"} THEN Undefined ELSE Property(v, key)

\* the number a literal denotes is zero
IsZero(lex) ==
    \A k \in 1..Len(lex) :
        (\A j \in 1..k : lex[j] \notin {"e", "E"}) => lex[k] \notin (Digits \ {"0"})

\* ToBoolean
Truthy(v) ==
    CASE v.t \in {"undefined", "null"} -> FALSE
      [] v.t = "boolean" -> v.b
      [] v.t = "number"  -> ~IsZero(v.lex)
      [] v.t = "string"  -> Len(v.s) > 0
      [] OTHER           -> TRUE

RECURSIVE JsToString(_)
RECURSIVE Join(_, _)
\* Array.prototype.join(",") from element i
Join(a, i) ==
    IF i > Len(a) THEN << >>
    ELSE (IF a[i].t \in {"undefined", "null"} THEN << >> ELSE JsToString(a[i]))
         \o (IF i < Len(a) THEN <<",">> ELSE << >>)
         \o Join(a, i + 1)

\* The string += appends for a value; a number is written as its literal,
\* which is what JavaScript prints for the integer literals of the model.
JsToString(v) ==
    CASE v.t = "string"    -> v.s
      [] v.t = "number"    -> v.lex
      [] v.t = "boolean"   -> IF v.b THEN LiteralTrue ELSE LiteralFalse
      [] v.t = "null"      -> LiteralNull
      [] v.t = "array"     -> Join(v.a, 1)
      [] v.t = "object"    -> ObjectObject
      [] OTHER             -> <<"u", "n", "d", "e", "f", "i", "n", "e", "d">>

\* jsonStr === "[DONE]"
IsDoneExactly(jsonStr) == jsonStr = DoneMarker

\* jsonStr.includes("[DONE]")
IsDone(jsonStr) == Includes(jsonStr, DoneMarker)

\* parsed.choices?.[0]?.delta?.content || ""
ContentOf(parsed) ==
    LET content == OptionalChain(OptionalChain(OptionalChain(
                       Property(parsed, KeyChoices), Index0), KeyDelta), KeyContent)
    IN  IF Truthy(content) THEN JsToString(content) ELSE << >>

\* What one match adds to cleanText: nothing for the end marker, the content
\* of the parsed object, or the raw string when JSON.parse throws (or when
\* parsed is null and reading parsed.choices throws).
Interpret(jsonStr) ==
    IF IsDone(jsonStr) THEN << >>
    ELSE LET r == JsonParse(jsonStr)
         IN  IF r.ok /\ r.v.t # "null" THEN ContentOf(r.v) ELSE jsonStr

RECURSIVE CleanTextFrom(_, _)
\* The while loop over regex.exec(chunk), from index from: cleanText.
CleanTextFrom(chunk, from) ==
    LET match == RegexExec(chunk, from)
    IN  IF ~match.found THEN << >>
        ELSE Interpret(match.group1) \o CleanTextFrom(chunk, match.lastIndex + 1)

\* cleanText for one decoded chunk
CleanText(chunk) == CleanTextFrom(chunk, 1)

\* ------------------------------------------------ the split/join variant

\* The two versions of getAiInsights in the file: the one that scans the
\* chunk with the regex, and the one that splits it at "data:".
Variants == {"regex", "splitjoin"}

\* index k of the chunk lies in an occurrence of the separator "data:"
InSeparator(chunk, k) ==
    \E i \in 1..k : i + Len(DataPrefix) > k /\ StartsAt(chunk, DataPrefix, i)

\* the indices that survive split("data:") and replace(/\n/g, "")
KeptIndices(chunk) ==
    {k \in 1..Len(chunk) : chunk[k] # "\n" /\ ~InSeparator(chunk, k)}

\* chunk.split("data:").map(line => line.replace(/\n/g, "")).join("")
CleanTextSplitJoin(chunk) ==
    LET kept == KeptIndices(chunk)
        nth(j) == CHOOSE k \in kept : Cardinality({x \in kept : x <= k}) = j
    IN  [j \in 1..Cardinality(kept) |-> chunk[nth(j)]]

\* cleanText as the variant in use computes it
CleanTextOf(v, chunk) ==
    IF v = "regex" THEN CleanText(chunk) ELSE CleanTextSplitJoin(chunk)

\* --------------------------------------------------- the response bodies

\* One frame of the wire format: data: <payload>\n
Frame(payload) == <<"d", "a", "t", "a", ":", " ">> \o payload \o <<"\n">>

\* The payload of the expected shape with the text T.
Shaped(T) ==
    <<"{", "\"", "c", "h", "o", "i", "c", "e", "s", "\"", ":", "[", "{", "\"", "d", "e", "l", "t", "a", "\"", ":", "{", "\"", "c", "o", "n", "t", "e", "n", "t", "\"", ":", "\"">>
    \o T \o <<"\"", "}", "}", "]", "}">>

PayloadA == <<"{", "a", "}">>
PayloadB == <<"{", "b", "}">>
PayloadAccent == <<"{", "0xC3", "0xA9", "}">>
PayloadNotJson == <<"n", "o", "t", "-", "j", "s", "o", "n", "-", "a", "t", "-", "a", "l", "l">>
PayloadHi == Shaped(<<"H", "i">>)
PayloadHello == Shaped(<<"H", "e", "l", "l", "o">>)
PayloadWorld == Shaped(<<" ", "w", "o", "r", "l", "d">>)

\* The first chunk of the end-to-end scenario: the frame of Hello up to "Hel".
HelloHead == SubSeq(Frame(PayloadHello), 1, Len(Frame(PayloadHello)) - 8)

\* A response body and the offsets at which the transport may end a chunk
\* (the end of the body is always one).
Body(bytes, cuts) == [body |-> bytes, cuts |-> cuts]
EveryOffset(bytes) == 1..Len(bytes)

BodyTwoFrames == Frame(PayloadA) \o Frame(PayloadB)
BodyAccent == Frame(PayloadAccent)
BodyNotJson == Frame(PayloadNotJson)
BodyDoneFirst == Frame(DoneMarker) \o Frame(PayloadA)
BodyHi == Frame(PayloadHi)
BodyHelloWorld == Frame(PayloadHello) \o Frame(PayloadWorld) \o Frame(DoneMarker)

\* Payloads that parse as an object but lack a step of choices[0].delta.content.
PayloadNoChoices == <<"{", "\"", "a", "\"", ":", "1", "}">>
PayloadEmptyChoices ==
    <<"{", "\"", "c", "h", "o", "i", "c", "e", "s", "\"", ":", "[", "]", "}">>
PayloadNoDelta ==
    <<"{", "\"", "c", "h", "o", "i", "c", "e", "s", "\"", ":", "[", "{", "}", "]", "}">>
PayloadNoContent ==
    <<"{", "\"", "c", "h", "o", "i", "c", "e", "s", "\"", ":", "[", "{", "\"", "d", "e", "l", "t", "a", "\"", ":", "{", "}", "}", "]", "}">>
MissingPathPayloads ==
    <<PayloadNoChoices, PayloadEmptyChoices, PayloadNoDelta, PayloadNoContent>>

\* A payload in braces that holds the end marker, and a comment line of the
\* event-stream format.
PayloadDoneInside == <<"{">> \o DoneMarker \o <<"}">>
CommentLine == <<":", " ", "p", "i", "n", "g", "\n">>

RECURSIVE BodyOf(_)
\* the frames of a sequence of payloads, one after the other
BodyOf(payloads) ==
    IF payloads = << >> THEN << >>
    ELSE Frame(Head(payloads)) \o BodyOf(Tail(payloads))

\* the offsets at which the frames of a sequence of payloads end
FrameEnds(payloads) ==
    {Len(BodyOf(SubSeq(payloads, 1, n))) : n \in 1..Len(payloads)}

BodyMissingPath == BodyOf(MissingPathPayloads \o <<PayloadA>>)
BodyDoneInside == Frame(PayloadDoneInside) \o Frame(PayloadA)
BodyComment == CommentLine \o Frame(PayloadA) \o CommentLine \o Frame(PayloadB)

Bodies ==
    { Body(BodyTwoFrames, EveryOffset(BodyTwoFrames)),
      Body(BodyAccent, EveryOffset(BodyAccent)),
      Body(BodyNotJson, {6, 10, Len(BodyNotJson)}),
      Body(BodyDoneFirst, EveryOffset(BodyDoneFirst)),
      Body(BodyHi, {6, 20, Len(BodyHi) - 1}),
      Body(BodyHelloWorld, {Len(HelloHead), Len(Frame(PayloadHello)),
                            Len(Frame(PayloadHello)) + Len(Frame(PayloadWorld))}),
      Body(BodyMissingPath, FrameEnds(MissingPathPayloads)),
      Body(BodyDoneInside, {Len(Frame(PayloadDoneInside))}),
      Body(BodyComment, {Len(CommentLine) - 4,
                         Len(CommentLine),
                         Len(CommentLine) + Len(DataPrefix),
                         Len(CommentLine) + Len(Frame(PayloadA)),
                         2 * Len(CommentLine) + Len(Frame(PayloadA))}) }

\* ------------------------------------------------------------- the state

MaxInvocations == 2

VARIABLES
    insight,     \* useState(""): the text on the screen
    loading,     \* useState(false)
    pc,          \* where the current invocation of getAiInsights is: idle
                 \* (none yet), fetching (await fetch), reading (await
                 \* reader.read()), closed (returned), failed (returned
                 \* through catch)
    invocation,  \* how many times getAiInsights has been called
    response,    \* the body of the response being read
    pos,         \* bytes of the body that read() has returned so far
    values,      \* the values read() returned last, two at most
    before,      \* insight as it was before each of them
    cleared,     \* CLEAR was pressed after the invocation returned
    variant,     \* which version of getAiInsights the build holds
    leftover,    \* the screen held text when getAiInsights was called
    scan,        \* where the exec loop over one chunk is, seen step by step:
                 \* idle (not looked at), exec (about to call regex.exec),
                 \* done (exec returned null)
    scanned,     \* the chunk that loop scans
    lastIndex,   \* regex.lastIndex
    matchIndex,  \* match.index of the last match, counted from 1; 0 before it
    matches      \* match[1] of every match the loop has had, in order

appVars == <<insight, loading, pc, invocation, response, pos, values, before, cleared, variant,
             leftover>>
scanVars == <<scan, scanned, lastIndex, matchIndex, matches>>
vars == <<appVars, scanVars>>

NoResponse == Body(<< >>, {})

\* "Error: " + err
ErrorText(err) == <<"E", "r", "r", "o", "r", ":", " ">> \o err

\* String(err) of new Error("Backend unreachable")
ErrBackend ==
    <<"E", "r", "r", "o", "r", ":", " ", "B", "a", "c", "k", "e", "n", "d", " ", "u",
      "n", "r", "e", "a", "c", "h", "a", "b", "l", "e">>

\* String(err) of new Error("ReadableStream not yet supported or empty response")
ErrNoStream ==
    <<"E", "r", "r", "o", "r", ":", " ", "R", "e", "a", "d", "a", "b", "l", "e", "S",
      "t", "r", "e", "a", "m", " ", "n", "o", "t", " ", "y", "e", "t", " ", "s", "u",
      "p", "p", "o", "r", "t", "e", "d", " ", "o", "r", " ", "e", "m", "p", "t", "y",
      " ", "r", "e", "s", "p", "o", "n", "s", "e">>

\* String(err) of the TypeError a rejected fetch carries
ErrFetch ==
    <<"T", "y", "p", "e", "E", "r", "r", "o", "r", ":", " ", "F", "a", "i", "l", "e",
      "d", " ", "t", "o", " ", "f", "e", "t", "c", "h">>

\* String(err) of the TypeError a rejected read carries
ErrRead ==
    <<"T", "y", "p", "e", "E", "r", "r", "o", "r", ":", " ", "n", "e", "t", "w", "o",
      "r", "k", " ", "e", "r", "r", "o", "r">>

\* no chunk is looked at step by step
ScanIdle ==
    /\ scan = "idle"
    /\ scanned = << >>
    /\ lastIndex = 0
    /\ matchIndex = 0
    /\ matches = << >>

Init ==
    /\ insight = << >>
    /\ loading = FALSE
    /\ pc = "idle"
    /\ invocation = 0
    /\ response = NoResponse
    /\ pos = 0
    /\ values = << >>
    /\ before = << >>
    /\ cleared = FALSE
    /\ variant = "regex"
    /\ leftover = FALSE
    /\ ScanIdle

\* The same start with either version of getAiInsights in the build.
InitVariants ==
    /\ insight = << >>
    /\ loading = FALSE
    /\ pc = "idle"
    /\ invocation = 0
    /\ response = NoResponse
    /\ pos = 0
    /\ values = << >>
    /\ before = << >>
    /\ cleared = FALSE
    /\ variant \in Variants
    /\ leftover = FALSE
    /\ ScanIdle

\* the last two of a sequence with one more element
LastTwo(s, x) == IF s = << >> THEN <<x>> ELSE <<s[Len(s)], x>>

\* setInsight(cleanText): the new text put in place of the old
ReplaceInsight(prev, cleanText) == cleanText

\* setInsight((prev) => cleanText + prev): the new text put in front
PrependInsight(prev, cleanText) == cleanText \o prev

\* setInsight((prev) => prev + cleanText)
AppendInsight(prev, cleanText) == prev \o cleanText

\* Analyze with a button that is never disabled.
AnalyzeWhileLoading ==
    /\ invocation < MaxInvocations
    /\ loading' = TRUE
    /\ insight' = << >>
    /\ pc' = "fetching"
    /\ invocation' = invocation + 1
    /\ response' = NoResponse
    /\ pos' = 0
    /\ values' = << >>
    /\ before' = << >>
    /\ cleared' = FALSE
    /\ leftover' = (insight # << >>)
    /\ UNCHANGED <<variant, scanVars>>

\* Clear with a button that is never disabled.
ClearWhileLoading ==
    /\ insight' = << >>
    /\ cleared' = TRUE
    /\ UNCHANGED <<loading, pc, invocation, response, pos, values, before, variant, leftover, scanVars>>

\* Analyze without setInsight(""): the screen keeps what it showed.
AnalyzeWithoutReset ==
    /\ ~loading
    /\ invocation < MaxInvocations
    /\ loading' = TRUE
    /\ pc' = "fetching"
    /\ invocation' = invocation + 1
    /\ response' = NoResponse
    /\ pos' = 0
    /\ values' = << >>
    /\ before' = << >>
    /\ cleared' = FALSE
    /\ leftover' = (insight # << >>)
    /\ UNCHANGED <<insight, variant, scanVars>>

\* The ANALYZE button (enabled while loading is false) calls getAiInsights:
\* setLoading(true); setInsight(""); then the fetch is awaited.
Analyze ==
    /\ ~loading
    /\ invocation < MaxInvocations
    /\ loading' = TRUE
    /\ insight' = << >>
    /\ pc' = "fetching"
    /\ invocation' = invocation + 1
    /\ response' = NoResponse
    /\ pos' = 0
    /\ values' = << >>
    /\ before' = << >>
    /\ cleared' = FALSE
    /\ leftover' = (insight # << >>)
    /\ UNCHANGED <<variant, scanVars>>

\* The CLEAR button (enabled while loading is false): setInsight("").
Clear ==
    /\ ~loading
    /\ insight' = << >>
    /\ cleared' = TRUE
    /\ UNCHANGED <<loading, pc, invocation, response, pos, values, before, variant, leftover, scanVars>>

\* Fail without the finally block: the error is shown and loading stays.
FailWithoutFinally(err) ==
    /\ insight' = ErrorText(err)
    /\ pc' = "failed"
    /\ UNCHANGED <<loading, invocation, response, pos, values, before, cleared, variant, leftover, scanVars>>

\* Fail with a catch that only logs: the screen keeps what it showed.
FailWithoutMessage(err) ==
    /\ loading' = FALSE
    /\ pc' = "failed"
    /\ UNCHANGED <<insight, invocation, response, pos, values, before, cleared, variant, leftover, scanVars>>

\* catch (err) { setInsight("Error: " + err) } finally { setLoading(false) }
Fail(err) ==
    /\ insight' = ErrorText(err)
    /\ loading' = FALSE
    /\ pc' = "failed"
    /\ UNCHANGED <<invocation, response, pos, values, before, cleared, variant, leftover, scanVars>>

\* fetch rejects, or the response is not ok, or it has no body.
FetchFails ==
    /\ pc = "fetching"
    /\ \E err \in {ErrFetch, ErrBackend, ErrNoStream} : Fail(err)

\* The response is ok and has a body: the reader and the decoder are made.
FetchOk ==
    /\ pc = "fetching"
    /\ response' \in Bodies
    /\ pc' = "reading"
    /\ UNCHANGED <<insight, loading, invocation, pos, values, before, cleared, variant, leftover, scanVars>>

\* ReadChunk with the catch inside the while loop: a rejected read writes the
\* error and the loop reads on.
ReadChunkAfterCatch ==
    /\ pc \in {"reading", "failed"}
    /\ \E end \in (response.cuts \cup {pos, Len(response.body)}) :
          /\ end >= pos
          /\ LET value == SubStr(response.body, pos + 1, end)
                 chunk == Decode(value)
             IN  /\ insight' = AppendInsight(insight, CleanTextOf(variant, chunk))
                 /\ values' = LastTwo(values, value)
          /\ pos' = end
    /\ before' = LastTwo(before, insight)
    /\ pc' = "reading"
    /\ UNCHANGED <<loading, invocation, response, cleared, variant, leftover, scanVars>>

\* ReadChunk without the try around JSON.parse: a payload that does not parse
\* throws out of the loop into the outer catch.
ReadChunkParseThrows ==
    /\ pc = "reading"
    /\ \E end \in (response.cuts \cup {pos, Len(response.body)}) :
          /\ end >= pos
          /\ LET value == SubStr(response.body, pos + 1, end)
                 chunk == Decode(value)
                 match == RegexExec(chunk, 1)
                 throws == /\ match.found
                           /\ ~IsDone(match.group1)
                           /\ ~JsonParse(match.group1).ok
             IN  /\ insight' = IF throws THEN ErrorText(<<"S", "y", "n", "t", "a", "x", "E", "r", "r", "o", "r">>)
                               ELSE AppendInsight(insight, CleanTextOf(variant, chunk))
                 /\ pc' = IF throws THEN "failed" ELSE pc
                 /\ loading' = IF throws THEN FALSE ELSE loading
                 /\ values' = LastTwo(values, value)
          /\ pos' = end
    /\ before' = LastTwo(before, insight)
    /\ UNCHANGED <<invocation, response, cleared, variant, leftover, scanVars>>

\* reader.read() returns {done: false, value}: the bytes up to the next
\* offset the transport chose (an empty value when it is pos itself); the
\* chunk is decoded, scanned, and cleanText is appended to insight.
ReadChunk ==
    /\ pc = "reading"
    /\ \E end \in (response.cuts \cup {pos, Len(response.body)}) :
          /\ end >= pos
          /\ LET value == SubStr(response.body, pos + 1, end)
                 chunk == Decode(value)
             IN  /\ insight' = AppendInsight(insight, CleanTextOf(variant, chunk))
                 /\ values' = LastTwo(values, value)
          /\ pos' = end
    /\ before' = LastTwo(before, insight)
    /\ UNCHANGED <<loading, pc, invocation, response, cleared, variant, leftover, scanVars>>

\* ReadDone without the finally block: the loop is left and loading stays.
ReadDoneWithoutFinally ==
    /\ pc = "reading"
    /\ pos = Len(response.body)
    /\ pc' = "closed"
    /\ UNCHANGED <<insight, loading, invocation, response, pos, values, before, cleared, variant, leftover, scanVars>>

\* reader.read() returns {done: true}: break, then finally.
ReadDone ==
    /\ pc = "reading"
    /\ pos = Len(response.body)
    /\ pc' = "closed"
    /\ loading' = FALSE
    /\ UNCHANGED <<insight, invocation, response, pos, values, before, cleared, variant, leftover, scanVars>>

\* reader.read() rejects.
ReadFails ==
    /\ pc = "reading"
    /\ Fail(ErrRead)

Next ==
    \/ Analyze
    \/ Clear
    \/ FetchFails
    \/ FetchOk
    \/ ReadChunk
    \/ ReadDone
    \/ ReadFails

Spec == Init /\ [][Next]_vars

\* ------------------------------------- the exec loop, one call at a time

\* the decoded chunks the read loop can hand to the exec loop: the bytes of
\* a body between two offsets at which the transport may end a value
ChunkTexts ==
    UNION {{Decode(SubStr(b.body, i + 1, j)) :
                <<i, j>> \in {c \in (b.cuts \cup {0}) \X (b.cuts \cup {Len(b.body)}) :
                                 c[1] <= c[2]}} : b \in Bodies}

\* const regex = /.../g; let cleanText = ""; for any chunk
ScanInit ==
    /\ insight = << >>
    /\ loading = TRUE
    /\ pc = "reading"
    /\ invocation = 1
    /\ response = NoResponse
    /\ pos = 0
    /\ values = << >>
    /\ before = << >>
    /\ cleared = FALSE
    /\ variant = "regex"
    /\ leftover = FALSE
    /\ scan = "exec"
    /\ scanned \in ChunkTexts
    /\ lastIndex = 0
    /\ matchIndex = 0
    /\ matches = << >>

RECURSIVE CleanTextOfMatches(_)
\* cleanText after the body of the loop has run for each of these matches
CleanTextOfMatches(ms) ==
    IF ms = << >> THEN << >>
    ELSE Interpret(Head(ms)) \o CleanTextOfMatches(Tail(ms))

\* cleanText as the loop has built it
CleanTextSoFar == CleanTextOfMatches(matches)

\* ExecMatch with a regex that lacks the g flag: exec starts from the
\* beginning of the chunk every time.
ExecMatchNotGlobal ==
    /\ scan = "exec"
    /\ \E match \in {RegexExec(scanned, 1)} :
          /\ match.found
          /\ matchIndex' = match.index
          /\ matches' = Append(matches, match.group1)
    /\ UNCHANGED <<scan, scanned, lastIndex, appVars>>

\* regex.exec(chunk) returns a match: lastIndex moves behind it and the body
\* of the loop runs for it, adding the text of match[1] to cleanText.
ExecMatch ==
    /\ scan = "exec"
    /\ \E match \in {RegexExec(scanned, lastIndex + 1)} :
          /\ match.found
          /\ lastIndex' = match.lastIndex
          /\ matchIndex' = match.index
          /\ matches' = Append(matches, match.group1)
    /\ UNCHANGED <<scan, scanned, appVars>>

\* regex.exec(chunk) returns null: lastIndex is reset and the loop is left.
ExecNull ==
    /\ scan = "exec"
    /\ ~RegexExec(scanned, lastIndex + 1).found
    /\ scan' = "done"
    /\ lastIndex' = 0
    /\ UNCHANGED <<scanned, matchIndex, matches, appVars>>

ScanNext ==
    \/ ExecMatch
    \/ ExecNull

\* The loop is synchronous code: once entered it runs on.
ScanSpec == ScanInit /\ [][ScanNext]_vars /\ WF_vars(ScanNext)

\* The same program with either version of getAiInsights.
SpecVariants == InitVariants /\ [][Next]_vars

\* The transport settles every promise the invocation awaits: the fetch
\* resolves or rejects, and the reads go on until one reports the end of the
\* stream or rejects.
FairSpec ==
    /\ Spec
    /\ WF_vars(FetchFails \/ FetchOk)
    /\ WF_vars(ReadDone \/ ReadFails)

\* ------------------------------------------- frames, as the spec defines them

Greatest(S) == CHOOSE x \in S : \A y \in S : x >= y
Last(s) == s[Len(s)]

\* the indices of the line breaks of a text
LineEnds(text) == {i \in 1..Len(text) : text[i] = "\n"}

\* where the line that ends at line break e starts
LineStart(text, e) ==
    LET earlier == {i \in LineEnds(text) : i < e}
    IN  IF earlier = {} THEN 1 ELSE Greatest(earlier) + 1

\* the line that ends at e is a frame: data: <payload>
IsFrame(text, e) == StartsAt(text, DataPrefix, LineStart(text, e))

\* the payload of the frame that ends at e: what follows data: and blanks
FramePayload(text, e) ==
    LET from == LineStart(text, e) + Len(DataPrefix)
        p    == Least({k \in from..e : k = e \/ text[k] # " "})
    IN  SubStr(text, p, e - 1)

\* the Delta of a frame: its payload as the payload interpreter reads it
FrameDelta(payload) == Interpret(payload)

RECURSIVE DeltasFrom(_, _)
\* The Deltas, in order, of the complete frames of a text from index from, up
\* to the frame that carries the end marker.
DeltasFrom(text, from) ==
    LET ends == {e \in LineEnds(text) : e >= from}
    IN  IF ends = {} THEN << >>
        ELSE LET e == Least(ends)
             IN  IF ~IsFrame(text, e) THEN DeltasFrom(text, e + 1)
                 ELSE IF IsDone(FramePayload(text, e)) THEN << >>
                 ELSE FrameDelta(FramePayload(text, e)) \o DeltasFrom(text, e + 1)

ExpectedOutput(text) == DeltasFrom(text, 1)

\* the line breaks that end a frame carrying the end marker
SentinelEnds(text) ==
    {e \in LineEnds(text) : IsFrame(text, e) /\ IsDone(FramePayload(text, e))}

\* the bytes read() has returned, and those it had returned before the last value
Received == SubStr(response.body, 1, pos)
ReceivedBefore == SubStr(response.body, 1, pos - Len(Last(values)))

\* ---------------------------------------------------------------- claims

\* C1: for a well-formed stream of frames, whatever the chunks the transport
\* cut it into, the read loop ends with the insight that the whole stream fed
\* as one chunk gives.
C1_ChunkBoundariesNeverAffectResult ==
    (pc = "closed" /\ ~cleared)
        => insight = AppendInsight(<< >>, CleanText(Decode(response.body)))

\* C2: when the last two chunks together are exactly one frame, and the first
\* of them ends inside the payload, the insight after the second is the
\* insight before the first with the frame's Delta appended once.
C2_SplitFrameAppendedOnce ==
    (pc = "reading" /\ Len(values) = 2)
        => LET start == pos - Len(values[1]) - Len(values[2])
               split == start + Len(values[1])
               frame == Decode(SubStr(response.body, start + 1, pos))
           IN  ( /\ pos > start
                 /\ LineEnds(frame) = {Len(frame)}
                 /\ IsFrame(frame, Len(frame))
                 /\ (start = 0 \/ response.body[start] = "\n")
                 /\ split > start + Len(DataPrefix) + 1
                 /\ split < pos - 1 )
               => insight = before[1] \o FrameDelta(FramePayload(frame, Len(frame)))

ShapedTexts == {<<"H", "i">>, <<"H", "e", "l", "l", "o">>, <<" ", "w", "o", "r", "l", "d">>}

\* C3: a chunk that is one complete frame of the expected shape with text T:
\* the regex's group is the whole payload and the insight grows by exactly T.
C3_ShapedFrameYieldsItsText ==
    \A T \in ShapedTexts :
        (pc = "reading" /\ values # << >> /\ Last(values) = Frame(Shaped(T)))
            => /\ RegexExec(Decode(Last(values)), 1).found
               /\ RegexExec(Decode(Last(values)), 1).group1 = Shaped(T)
               /\ insight = Last(before) \o T

\* The second and third chunk of the end-to-end scenario.
HelloTail ==
    SubSeq(Frame(PayloadHello), Len(HelloHead) + 1, Len(Frame(PayloadHello)))
WorldAndDone == Frame(PayloadWorld) \o Frame(DoneMarker)
HelloWorld == <<"H", "e", "l", "l", "o", " ", "w", "o", "r", "l", "d">>

\* C4: the end-to-end scenario (the chunks HelloHead, HelloTail, WorldAndDone,
\* then the end of the stream, with no failed read) leaves the invocation
\* closed with insight = "Hello world" and loading false.  HelloHead is the
\* only way the transport delivers the bytes before HelloTail.
C4_EndToEndHelloWorld ==
    ( /\ pc = "closed"
      /\ ~cleared
      /\ response.body = BodyHelloWorld
      /\ values = <<HelloTail, WorldAndDone>> )
        => (insight = HelloWorld /\ ~loading)

\* C5: once a frame carrying [DONE] has been read, nothing more is appended:
\* a chunk read after that frame leaves insight as it was, and a chunk holding
\* that frame appends only what precedes the frame's end.
C5_NothingAppendedAfterDone ==
    (pc = "reading" /\ values # << >>)
        => /\ SentinelEnds(Decode(ReceivedBefore)) # {} => insight = Last(before)
           /\ LET chunk == Decode(Last(values))
              IN  ( /\ SentinelEnds(Decode(ReceivedBefore)) = {}
                    /\ SentinelEnds(chunk) # {} )
                  => insight = Last(before)
                         \o CleanText(SubStr(chunk, 1, Least(SentinelEnds(chunk))))

\* C6: a chunk that is one complete frame whose payload JSON.parse rejects
\* grows the insight by the whole raw payload.
C6_UnparsablePayloadKeptRaw ==
    (pc = "reading" /\ values # << >>)
        => LET chunk == Decode(Last(values))
           IN  ( /\ LineEnds(chunk) = {Len(chunk)}
                 /\ IsFrame(chunk, Len(chunk))
                 /\ ~IsDone(FramePayload(chunk, Len(chunk)))
                 /\ ~JsonParse(FramePayload(chunk, Len(chunk))).ok )
               => insight = Last(before) \o FramePayload(chunk, Len(chunk))

\* C7: when the two bytes of a code point are the last byte of one chunk and
\* the first byte of the next, the two decoded chunks together are the decoded
\* text of the bytes together, with no replacement character.
C7_SplitCodePointDecoded ==
    ( /\ Len(values) = 2
      /\ values[1] # << >>
      /\ values[2] # << >>
      /\ Last(values[1]) \in LeadBytes
      /\ values[2][1] \in ContBytes )
        => LET text == Decode(values[1]) \o Decode(values[2])
           IN  /\ text = Decode(values[1] \o values[2])
               /\ \A i \in 1..Len(text) : text[i] # Replacement

\* C8: while the stream is read, insight is the concatenation, in order, of
\* the Deltas of the complete frames received so far, and holds nothing of a
\* frame whose line break has not arrived.
C8_InsightIsDeltasOfCompleteFrames ==
    pc = "reading" => insight = ExpectedOutput(Decode(Received))

\* C9: a read that returns an empty value appends nothing and changes neither
\* insight nor loading nor where the invocation is.
C9_EmptyChunkChangesNothing ==
    [][(pc = "reading" /\ pos' = pos /\ values' # values)
           => (insight' = insight /\ loading' = loading /\ pc' = pc)]_vars

\* an empty value was read after a value that put text on the screen
C9_Witness ==
    /\ pc = "reading"
    /\ Len(values) = 2
    /\ values[1] # << >>
    /\ values[2] = << >>
    /\ insight # << >>

\* C10: once an invocation has returned (closed, or failed through catch), it
\* never reads again and never writes insight again: until the next ANALYZE,
\* pc stays and insight changes only by CLEAR.
C10_TerminalStatesAbsorbing ==
    [][(pc \in {"closed", "failed"} /\ invocation' = invocation)
           => (pc' = pc /\ loading' = loading
               /\ (insight' = insight \/ (cleared' /\ insight' = << >>)))]_vars

\* an invocation has returned with text on the screen, and more may follow
C10_Witness ==
    /\ pc \in {"closed", "failed"}
    /\ ~cleared
    /\ insight # << >>
    /\ invocation < MaxInvocations

\* the messages of the three ways the request fails before a reader exists
RequestErrors == {ErrFetch, ErrBackend, ErrNoStream}

\* C11: an invocation that failed before it had a reader (fetch rejected, the
\* status was not ok, or there was no body) has read no chunk and appended
\* nothing: insight is exactly the error message and loading is false.
C11_RequestFailureShowsOnlyError ==
    (pc = "failed" /\ response = NoResponse /\ ~cleared)
        => /\ values = << >>
           /\ pos = 0
           /\ \E err \in RequestErrors : insight = ErrorText(err)
           /\ ~loading

\* the second invocation failed on a response that was not ok
C11_Witness ==
    /\ pc = "failed"
    /\ response = NoResponse
    /\ invocation = 2
    /\ insight = ErrorText(ErrBackend)

\* C12: when a read fails, the insight becomes the error message, which is
\* not what the screen showed before, so it differs from the insight the same
\* chunks leave when the stream ends normally; loading is false.
C12_FailedReadLeavesErrorIndicator ==
    [][(pc = "reading" /\ pc' = "failed")
           => (insight' = ErrorText(ErrRead) /\ insight' # insight /\ ~loading')]_vars

\* a read failed after two chunks, with text already on the screen
C12_Witness ==
    /\ pc = "failed"
    /\ Len(before) = 2
    /\ before[2] # << >>
    /\ insight = ErrorText(ErrRead)

\* C13: the step that takes a reading invocation to failed is never a step
\* that processed a chunk: it reads no value, and the message it shows is the
\* one of the rejected read.
C13_OnlyTransportFails ==
    [][(pc = "reading" /\ pc' = "failed")
           => (values' = values /\ pos' = pos /\ insight' = ErrorText(ErrRead))]_vars

\* the chunk just processed held a payload JSON.parse rejects, a replacement
\* character, or no frame at all, and the invocation still reads
C13_Witness ==
    /\ pc = "reading"
    /\ Len(values) = 2
    /\ LET first == RegexExec(Decode(values[1]), 1)
       IN  first.found /\ ~JsonParse(first.group1).ok
    /\ \/ Replacement \in {Decode(values[2])[i] : i \in 1..Len(Decode(values[2]))}
       \/ (values[2] # << >> /\ ~RegexExec(Decode(values[2]), 1).found)

IsPrefix(s, t) == Len(s) <= Len(t) /\ SubStr(t, 1, Len(s)) = s

\* C14 as stated: every step of a reading invocation, the one that ends it by
\* a failed read included, leaves the earlier insight a prefix of the later.
C14_AppendOnlyIncludingFailure ==
    [][(pc = "reading" /\ invocation' = invocation)
           => IsPrefix(insight, insight')]_vars

\* C14, amended: every step of a reading invocation other than a failed read
\* (a chunk, the end of the stream) leaves the earlier insight a prefix of the
\* later; a failed read puts the error message in its place.
C14_AppendOnlyUntilFailure ==
    [][(pc = "reading" /\ invocation' = invocation)
           => IF pc' = "failed" THEN insight' = ErrorText(ErrRead)
              ELSE IsPrefix(insight, insight')]_vars

\* each of the last two chunks put more text after what was there
C14_Witness ==
    /\ pc \in {"reading", "closed"}
    /\ ~cleared
    /\ Len(before) = 2
    /\ before[1] # << >>
    /\ before[2] # before[1]
    /\ insight # before[2]
    /\ IsPrefix(before[1], before[2])
    /\ IsPrefix(before[2], insight)

\* the payload parses as an object from which choices[0].delta.content is
\* missing at some step
LacksContentPath(payload) ==
    LET r == JsonParse(payload)
    IN  /\ r.ok
        /\ r.v.t = "object"
        /\ OptionalChain(OptionalChain(OptionalChain(
               Property(r.v, KeyChoices), Index0), KeyDelta), KeyContent) = Undefined

\* C15: when the first line of a chunk is a complete frame whose payload
\* parses as an object that lacks a step of choices[0].delta.content, the
\* frame adds nothing: the insight grows only by what the rest of the chunk
\* gives.
C15_MissingPathYieldsEmptyDelta ==
    (pc = "reading" /\ values # << >> /\ LineEnds(Decode(Last(values))) # {})
        => LET chunk == Decode(Last(values))
               e     == Least(LineEnds(chunk))
           IN  (IsFrame(chunk, e) /\ LacksContentPath(FramePayload(chunk, e)))
               => insight = Last(before) \o CleanText(SubStr(chunk, e + 1, Len(chunk)))

\* the characters of the lines of a text that are not frames
OutsideFrameChars(text) ==
    {text[i] : i \in {k \in 1..Len(text) :
                         /\ text[k] # "\n"
                         /\ \E e \in LineEnds(text) :
                               /\ LineStart(text, e) <= k
                               /\ k < e
                               /\ ~IsFrame(text, e)}}

\* the characters of the payloads of the frames of a text
PayloadChars(text) ==
    UNION {{FramePayload(text, e)[i] : i \in 1..Len(FramePayload(text, e))} :
               e \in {x \in LineEnds(text) : IsFrame(text, x)}}

\* C16: with either version of getAiInsights, the insight holds no line
\* break, no data: prefix, and no character that the stream carries only in
\* lines that are not frames.
C16_TextOutsideFramesDiscarded ==
    (pc \in {"reading", "closed"} /\ ~cleared)
        => LET text == Decode(response.body)
           IN  /\ \A k \in 1..Len(insight) :
                     /\ insight[k] # "\n"
                     /\ insight[k] \notin (OutsideFrameChars(text) \ PayloadChars(text))
               /\ ~Includes(insight, DataPrefix)

\* the invocation is between its call and its return
Running == pc \in {"fetching", "reading"}

\* C17: getAiInsights is called only when no invocation is running, and a
\* step that appends to insight belongs to the one invocation that is
\* reading: no second invocation starts between two appends of the first.
C17_InvocationsNeverOverlap ==
    [][/\ (invocation' # invocation) => (~Running /\ ~loading)
       /\ (Running /\ insight' # insight) => invocation' = invocation]_vars

\* the second invocation appends after the first has returned
C17_Witness ==
    /\ invocation = MaxInvocations
    /\ pc = "reading"
    /\ values # << >>
    /\ insight # << >>

\* what a payload without the end marker adds: the content of the parsed
\* object, or the payload itself when it does not parse
Interpreted(jsonStr) ==
    LET r == JsonParse(jsonStr)
    IN  IF r.ok /\ r.v.t # "null" THEN ContentOf(r.v) ELSE jsonStr

\* C18: for the first payload the regex extracts from a chunk: when it
\* contains [DONE] anywhere it adds nothing, and when it does not it adds its
\* interpretation (structured, or the raw payload); either way the insight
\* grows by that and by what the matches after it give.
C18_SentinelIsSubstringTest ==
    (pc = "reading" /\ values # << >>)
        => LET chunk == Decode(Last(values))
               match == RegexExec(chunk, 1)
           IN  match.found
               => insight = Last(before)
                      \o (IF Includes(match.group1, DoneMarker) THEN << >>
                          ELSE Interpreted(match.group1))
                      \o CleanTextFrom(chunk, match.lastIndex + 1)

\* one chunk held the payload {[DONE]}, which was skipped, and then {a},
\* which was appended raw
C18_Witness ==
    /\ pc = "reading"
    /\ values # << >>
    /\ Last(values) = BodyDoneInside
    /\ RegexExec(Decode(Last(values)), 1).group1 = PayloadDoneInside
    /\ insight = Last(before) \o PayloadA

\* C19: a call of getAiInsights sets loading before the request; loading is
\* true as long as the invocation is fetching or reading; and, the transport
\* settling every awaited promise, the invocation returns with loading false.
C19_LoadingBracketsInvocation ==
    /\ [][(invocation' # invocation) => (loading' /\ pc' = "fetching")]_vars
    /\ [](Running => loading)
    /\ Running ~> (~Running /\ ~loading)

\* an invocation that read chunks has returned and loading is false again
C19_Witness ==
    /\ pc \in {"closed", "failed"}
    /\ values # << >>
    /\ ~loading

\* C20: while loading is true no ANALYZE and no CLEAR takes effect: insight
\* changes only by an append of the reading invocation or by its error
\* message.
C20_OnlyInvocationWritesWhileLoading ==
    [][loading
           => /\ invocation' = invocation
              /\ cleared' = cleared
              /\ \/ insight' = insight
                 \/ (pc = "reading" /\ pc' = "reading" /\ IsPrefix(insight, insight'))
                 \/ (pc' = "failed"
                     /\ \E err \in RequestErrors \cup {ErrRead} : insight' = ErrorText(err))]_vars

\* the second invocation is loading with text on the screen
C20_Witness ==
    /\ loading
    /\ invocation = MaxInvocations
    /\ insight # << >>

\* what the reads of the last two values put on the screen, one after the other
TextOfValues ==
    IF Len(values) = 2
    THEN CleanText(Decode(values[1])) \o CleanText(Decode(values[2]))
    ELSE CleanText(Decode(values[1]))

\* every byte read so far came in the last two values
AllInValues ==
    pos = (IF Len(values) = 2 THEN Len(values[1]) + Len(values[2]) ELSE Len(values[1]))

\* C21: an invocation starts reading from an empty insight, whatever the
\* screen held when it was called: insight is empty until the first chunk,
\* then exactly the text of this invocation's chunks, and after a failure
\* exactly this invocation's error message.
C21_InvocationStartsFromEmpty ==
    /\ (pc = "fetching" \/ (pc = "reading" /\ pos = 0)) => insight = << >>
    /\ (pc \in {"reading", "closed"} /\ ~cleared /\ values # << >> /\ AllInValues)
           => insight = TextOfValues
    /\ (pc = "failed" /\ ~cleared)
           => \E err \in RequestErrors \cup {ErrRead} : insight = ErrorText(err)

\* called with text on the screen, the invocation has read a chunk and the
\* screen shows the text of that chunk only
C21_Witness ==
    /\ leftover
    /\ pc = "reading"
    /\ Len(values) = 1
    /\ AllInValues
    /\ insight # << >>
    /\ insight = TextOfValues

\* C22: the exec loop over a chunk ends. Each match begins behind the end of
\* the one before it and ends inside the chunk, so lastIndex grows with every
\* match; the loop, which takes its steps from the chunk alone, reaches the
\* null result, and by then cleanText holds the text of every match once.
C22_ScanTerminates ==
    /\ [][(scan = "exec" /\ scan' = "exec")
              => /\ matchIndex' > lastIndex
                 /\ lastIndex' > matchIndex'
                 /\ lastIndex' <= Len(scanned)]_vars
    /\ (scan = "exec") ~> (scan = "done")
    /\ [](scan = "done" => CleanTextSoFar = CleanText(scanned))

\* the loop over the chunk of five frames has ended after several matches
C22_Witness ==
    /\ scan = "done"
    /\ scanned = Decode(BodyMissingPath)
    /\ matchIndex > Len(Frame(PayloadNoChoices))
    /\ Len(matches) > 2
    /\ CleanTextSoFar # << >>

====
